---- MODULE Spec2Model ----
\* Buffer pool manager instance (buffer_pool_manager_instance.cpp) with its
\* page table (extendible hash table, used as a map page_id -> frame_id) and
\* the LRU-K replacer (victim choice over the evictable frames).
EXTENDS Integers, Naturals, Sequences, FiniteSets, TLC

\* ---- bounds ----
PoolSize == 2
MaxPage == 3
MaxPin == 2
MaxKey == 5
BucketSize == 2
ReplN == 3
ReplK == 2
MaxTs == 5
NThreads == 2
MaxOps == 2
MaxCtorPool == 10
MaxCtorK == 6
MaxWritePage == 1

\* ---- program constants ----
INVALID_PAGE_ID == -1
NoFrame == -1
\* op.dealloc when the call deallocated nothing
NoDealloc == -3

Frames == 0..(PoolSize - 1)
Pages == 0..(MaxPage - 1)
\* page ids FetchPgImp, UnpinPgImp and DeletePgImp accept (none rejects INVALID_PAGE_ID)
PageKeys == {INVALID_PAGE_ID} \cup Pages
\* bytes of a frame: 0 = zeroed page, 1 = the bytes "X" a caller writes
Vals == {0, 1}
WriteVals == {1}
\* pages a caller writes bytes into through their handles
WritePages == 0..(MaxWritePage - 1)

VARIABLES
  page_id,       \* pages_[f].page_id_
  pin_count,     \* pages_[f].pin_count_
  is_dirty,      \* pages_[f].is_dirty_
  data,          \* pages_[f].data_ (abstracted to one value)
  free_list,     \* free_list_
  page_table,    \* page_table_ : page id -> frame id (NoFrame = absent)
  evictable,     \* replacer_: frames marked evictable
  tracked,       \* replacer_: frames with an access history
  next_page_id,  \* next_page_id_
  disk,          \* disk_manager_: page id -> bytes on disk
  latest,        \* caller's view: last bytes written for each page (Deleted: deleted since)
  mod,           \* caller's view: frame written through its handle since last dirty unpin
  op,            \* last public call: name, page id argument, result, page id it
                 \* deallocated, is_dirty argument of UnpinPage
  wrote,         \* page ids written to disk by the last call
  unalloc_fetch, \* caller's view: some FetchPage named a page id not yet handed out by NewPage
  dirty_lost_unpin \* caller's view: a writer unpinned its page with is_dirty = false

\* ExtendibleHashTable<int, int> (extendible_hash_table.cpp)
VARIABLES
  global_depth,  \* global_depth_
  dir,           \* dir_ : slot -> bucket object id
  bkt,           \* bucket object id -> [depth |-> depth_, items |-> list_]
  num_buckets,   \* num_buckets_
  expect,        \* caller's view: value of the latest Insert(k, v) not removed since
  ht_op          \* last public call on the table and its result (for Insert: whether
                 \* the key was absent, and the number of loop iterations it ran)

htVars == <<global_depth, dir, bkt, num_buckets, expect, ht_op>>

\* LRUKReplacer (replacer_)
VARIABLES
  rhist,         \* frame -> its last (up to K) access timestamps, oldest first
  rev,           \* frame -> evictable flag
  rts,           \* current timestamp
  rsize,         \* Size(): number of evictable frames
  rep_op         \* last call on the replacer and its result

repVars == <<rhist, rev, rts, rsize, rep_op>>

\* threads calling the pool, and the three latches
VARIABLES
  tpc,           \* thread -> position in its current public call
  tcalls,        \* thread -> latched calls into page_table_ / replacer_ still to make
  tname,         \* thread -> public method being executed
  tops,          \* thread -> number of public calls completed
  latch          \* "pool" / "index" / "replacer" -> holding thread (0: free)

concVars == <<tpc, tcalls, tname, tops, latch>>

\* BufferPoolManagerInstance construction with arguments pool_size, replacer_k
VARIABLES
  ctor_size,     \* pool_size argument
  ctor_k,        \* replacer_k argument
  ctor_state,    \* "start", "built" (object exists) or "threw"
  ctor_free      \* free_list_ of the object being constructed

ctorVars == <<ctor_size, ctor_k, ctor_state, ctor_free>>

RFrames == 0..(ReplN - 1)
Threads == 1..NThreads
Latches == {"pool", "index", "replacer"}

RepInit ==
  /\ rhist = [f \in RFrames |-> <<>>]
  /\ rev = [f \in RFrames |-> FALSE]
  /\ rts = 0
  /\ rsize = 0
  /\ rep_op = [name |-> "Init", frame |-> -1, ok |-> TRUE]

ConcInit ==
  /\ tpc = [t \in Threads |-> "idle"]
  /\ tcalls = [t \in Threads |-> <<>>]
  /\ tname = [t \in Threads |-> "none"]
  /\ tops = [t \in Threads |-> 0]
  /\ latch = [l \in Latches |-> 0]

CtorStartState == ctor_state = "start" /\ ctor_free = <<>>

\* throw NotImplementedException(...) at the end of the constructor body
CtorThrows == TRUE

\* keys are ints; std::hash<int> is the identity
HKeys == 0..(MaxKey - 1)
HVals == {1, 2}
NoValue == 0
Hash(k) == k
BucketIds == 0..(2 * MaxKey)
NullBucket == [depth |-> 0, items |-> <<>>]

\* ExtendibleHashTable constructor: global depth 0, one empty bucket.
HTInit ==
  /\ global_depth = 0
  /\ dir = [i \in {0} |-> 0]
  /\ bkt = [b \in BucketIds |-> NullBucket]
  /\ num_buckets = 1
  /\ expect = [k \in HKeys |-> NoValue]
  /\ ht_op = [name |-> "Init", key |-> -1, ok |-> TRUE, val |-> NoValue, stuck |-> FALSE,
               fresh |-> FALSE, splits |-> 0]

pool == <<page_id, pin_count, is_dirty, data, free_list, page_table, evictable,
          tracked, next_page_id, disk, latest, mod, op, wrote, unalloc_fetch, dirty_lost_unpin>>

vars == <<pool, htVars, repVars, concVars, ctorVars>>

poolVars == <<page_id, pin_count, is_dirty, data, free_list, page_table, evictable,
              tracked, next_page_id, disk>>

\* BufferPoolManagerInstance constructor (without the scaffold throw):
\* every frame is a default Page and is on the free list.
InitBase ==
  /\ page_id = [f \in Frames |-> INVALID_PAGE_ID]
  /\ pin_count = [f \in Frames |-> 0]
  /\ is_dirty = [f \in Frames |-> FALSE]
  /\ data = [f \in Frames |-> 0]
  /\ free_list = [i \in 1..PoolSize |-> i - 1]
  /\ page_table = [p \in PageKeys |-> NoFrame]
  /\ evictable = {}
  /\ tracked = {}
  /\ next_page_id = 0
  /\ disk = [p \in PageKeys |-> 0]
  /\ latest = [p \in Pages |-> 0]
  /\ mod = [f \in Frames |-> FALSE]
  /\ op = [name |-> "Init", arg |-> INVALID_PAGE_ID, ok |-> TRUE, dealloc |-> NoDealloc, dirty |-> FALSE]
  /\ wrote = {}
  /\ unalloc_fetch = FALSE
  /\ dirty_lost_unpin = FALSE
  /\ HTInit
  /\ RepInit
  /\ ConcInit

\* BufferPoolManagerInstance(PoolSize, disk_manager, ReplK): the body builds the
\* state of InitBase, then the constructor throws (CtorThrows), so no object exists.
Init ==
  /\ InitBase
  /\ ctor_size = PoolSize /\ ctor_k = ReplK
  /\ ctor_free = [i \in 1..PoolSize |-> i - 1]
  /\ ctor_state = IF CtorThrows THEN "threw" ELSE "built"

\* a pool object exists, so its public methods can be called
PoolBuilt == ctor_state = "built"

\* ---- page table (ExtendibleHashTable used as a map) ----
Find(pid) == pid \in PageKeys /\ page_table[pid] # NoFrame
Cached == {f \in Frames : \E p \in PageKeys : page_table[p] = f}

\* ---- replacer (LRUKReplacer, spec-modelled victim choice) ----
\* Evict returns some evictable frame; the LRU-K order is abstracted to a choice.
EvictCandidates == evictable \cap tracked

\* page_table_->Insert(pid, f) / page_table_->Remove(pid)
PageTableInsert(pt, pid, f) == [pt EXCEPT ![pid] = f]
PageTableRemove(pt, pid) == [pt EXCEPT ![pid] = NoFrame]

\* free_list_.erase(free_list_.begin()) / pop_front() and push_back(f)
FreeListPop(fl) == Tail(fl)
\* variant: push_back forgotten
FreeListPushLost(fl, f) == fl
FreeListPush(fl, f) == Append(fl, f)

\* variant: pre-increment (return ++next_page_id_)
AllocatePagePreInc == next_page_id + 1

\* BufferPoolManagerInstance::AllocatePage
AllocatePage == next_page_id

\* Successful NewPgImp into frame f (free or evicted).
NewPgTo(f, fromFree) ==
  LET pid == AllocatePage
      disk1 == IF ~fromFree /\ is_dirty[f] THEN [disk EXCEPT ![page_id[f]] = data[f]] ELSE disk
      pt1 == IF fromFree THEN page_table ELSE PageTableRemove(page_table, page_id[f])
  IN
  /\ next_page_id' = next_page_id + 1
  /\ free_list' = IF fromFree THEN FreeListPop(free_list) ELSE free_list
  /\ disk' = disk1
  /\ wrote' = IF ~fromFree /\ is_dirty[f] THEN {page_id[f]} ELSE {}
  /\ page_table' = PageTableInsert(pt1, pid, f)
  /\ data' = [data EXCEPT ![f] = 0]
  /\ page_id' = [page_id EXCEPT ![f] = pid]
  /\ pin_count' = [pin_count EXCEPT ![f] = 1]
  /\ is_dirty' = [is_dirty EXCEPT ![f] = FALSE]
  /\ tracked' = tracked \cup {f}
  /\ evictable' = evictable \ {f}
  /\ mod' = [mod EXCEPT ![f] = FALSE]
  /\ op' = [name |-> "NewPage", arg |-> pid, ok |-> TRUE, dealloc |-> NoDealloc, dirty |-> FALSE]
  /\ UNCHANGED latest

\* variant: the page id is allocated before the victim check
NewPgFailAlloc ==
  /\ op' = [name |-> "NewPage", arg |-> INVALID_PAGE_ID, ok |-> FALSE, dealloc |-> NoDealloc, dirty |-> FALSE]
  /\ wrote' = {}
  /\ next_page_id' = next_page_id + 1
  /\ UNCHANGED <<page_id, pin_count, is_dirty, data, free_list, page_table, evictable,
                 tracked, disk, latest, mod>>

\* NewPgImp when no frame is free or evictable: return nullptr.
NewPgFail ==
  /\ op' = [name |-> "NewPage", arg |-> INVALID_PAGE_ID, ok |-> FALSE, dealloc |-> NoDealloc, dirty |-> FALSE]
  /\ wrote' = {}
  /\ UNCHANGED <<poolVars, latest, mod>>

\* BufferPoolManagerInstance::NewPgImp
NewPgImp ==
  /\ next_page_id < MaxPage
  /\ \/ /\ free_list # <<>>
        /\ NewPgTo(Head(free_list), TRUE)
     \/ /\ free_list = <<>>
        /\ \E f \in EvictCandidates : NewPgTo(f, FALSE)
     \/ /\ free_list = <<>>
        /\ EvictCandidates = {}
        /\ NewPgFail

\* Successful FetchPgImp of an uncached page pid into frame f (free or evicted):
\* write back the dirty victim, then ResetMemory and ReadPage(pid).
FetchPgTo(pid, f, fromFree) ==
  LET disk1 == IF ~fromFree /\ is_dirty[f] THEN [disk EXCEPT ![page_id[f]] = data[f]] ELSE disk
      pt1 == IF fromFree THEN page_table ELSE PageTableRemove(page_table, page_id[f])
  IN
  /\ free_list' = IF fromFree THEN FreeListPop(free_list) ELSE free_list
  /\ disk' = disk1
  /\ wrote' = IF ~fromFree /\ is_dirty[f] THEN {page_id[f]} ELSE {}
  /\ page_table' = PageTableInsert(pt1, pid, f)
  /\ data' = [data EXCEPT ![f] = disk1[pid]]
  /\ page_id' = [page_id EXCEPT ![f] = pid]
  /\ pin_count' = [pin_count EXCEPT ![f] = 1]
  /\ is_dirty' = [is_dirty EXCEPT ![f] = FALSE]
  /\ tracked' = tracked \cup {f}
  /\ evictable' = evictable \ {f}
  /\ mod' = [mod EXCEPT ![f] = FALSE]
  /\ op' = [name |-> "FetchPage", arg |-> pid, ok |-> TRUE, dealloc |-> NoDealloc, dirty |-> FALSE]
  /\ UNCHANGED <<next_page_id, latest>>

\* FetchPgImp of an uncached pid when no frame is free or evictable: return nullptr.
FetchPgFail(pid) ==
  /\ op' = [name |-> "FetchPage", arg |-> pid, ok |-> FALSE, dealloc |-> NoDealloc, dirty |-> FALSE]
  /\ wrote' = {}
  /\ UNCHANGED <<poolVars, latest, mod>>

\* BufferPoolManagerInstance::FetchPgImp(pid)
FetchPg(pid) ==
  \/ /\ Find(pid)
     /\ pin_count[page_table[pid]] < MaxPin
     /\ LET f == page_table[pid] IN
        /\ tracked' = tracked \cup {f}
        /\ evictable' = evictable \ {f}
        /\ pin_count' = [pin_count EXCEPT ![f] = @ + 1]
        /\ op' = [name |-> "FetchPage", arg |-> pid, ok |-> TRUE, dealloc |-> NoDealloc, dirty |-> FALSE]
        /\ wrote' = {}
        /\ UNCHANGED <<page_id, is_dirty, data, free_list, page_table, next_page_id,
                       disk, latest, mod>>
  \/ /\ ~Find(pid)
     /\ \/ /\ free_list # <<>>
           /\ FetchPgTo(pid, Head(free_list), TRUE)
        \/ /\ free_list = <<>>
           /\ \E f \in EvictCandidates : FetchPgTo(pid, f, FALSE)
        \/ /\ free_list = <<>>
           /\ EvictCandidates = {}
           /\ FetchPgFail(pid)

FetchPgImp ==
  \E pid \in PageKeys :
    /\ FetchPg(pid)
    /\ unalloc_fetch' = (unalloc_fetch \/ pid = INVALID_PAGE_ID \/ pid >= next_page_id)

\* variant: is_dirty_ = is_dirty
DirtyFoldAssign(old, d) == d

\* is_dirty_ |= is_dirty
DirtyFold(old, d) == old \/ d

\* variant: off-by-one test of the pin count
UnpinReachesZeroEarly(pc) == pc <= 1

\* if (pin_count_ == 0) SetEvictable(frame_id, true), tested after the decrement
UnpinReachesZero(pc) == pc = 0

\* BufferPoolManagerInstance::UnpinPgImp(pid, d)
UnpinPg(pid, d) ==
  IF ~Find(pid) \/ pin_count[page_table[pid]] = 0
  THEN /\ op' = [name |-> "UnpinPage", arg |-> pid, ok |-> FALSE, dealloc |-> NoDealloc, dirty |-> d]
       /\ wrote' = {}
       /\ UNCHANGED <<poolVars, latest, mod>>
  ELSE LET f == page_table[pid] IN
       /\ pin_count' = [pin_count EXCEPT ![f] = @ - 1]
       /\ is_dirty' = [is_dirty EXCEPT ![f] = DirtyFold(@, d)]
       /\ evictable' = IF UnpinReachesZero(pin_count[f] - 1) /\ f \in tracked
                        THEN evictable \cup {f} ELSE evictable
       /\ mod' = IF d THEN [mod EXCEPT ![f] = FALSE] ELSE mod
       /\ op' = [name |-> "UnpinPage", arg |-> pid, ok |-> TRUE, dealloc |-> NoDealloc, dirty |-> d]
       /\ wrote' = {}
       /\ UNCHANGED <<page_id, data, free_list, page_table, tracked, next_page_id,
                      disk, latest>>

\* Caller's view: an UnpinPage(pid, false) that releases the last pin of a frame
\* written since its last dirty unpin means the writer unpinned with false.
UnpinPgImp ==
  \E pid \in PageKeys, d \in BOOLEAN :
    /\ UnpinPg(pid, d)
    /\ dirty_lost_unpin' =
         (dirty_lost_unpin \/ (~d /\ Find(pid) /\ pin_count[page_table[pid]] = 1
                                  /\ mod[page_table[pid]]))

\* BufferPoolManagerInstance::FlushPgImp(pid)
FlushPg(pid) ==
  IF ~Find(pid)
  THEN /\ op' = [name |-> "FlushPage", arg |-> pid, ok |-> FALSE, dealloc |-> NoDealloc, dirty |-> FALSE]
       /\ wrote' = {}
       /\ UNCHANGED <<poolVars, latest, mod>>
  ELSE LET f == page_table[pid] IN
       /\ disk' = [disk EXCEPT ![page_id[f]] = data[f]]
       /\ is_dirty' = [is_dirty EXCEPT ![f] = FALSE]
       /\ op' = [name |-> "FlushPage", arg |-> pid, ok |-> TRUE, dealloc |-> NoDealloc, dirty |-> FALSE]
       /\ wrote' = {page_id[f]}
       /\ UNCHANGED <<page_id, pin_count, data, free_list, page_table, evictable,
                      tracked, next_page_id, latest, mod>>

\* FlushPgImp(INVALID_PAGE_ID) fails assert(page_id != INVALID_PAGE_ID) and aborts:
\* no step.
FlushPgImp == \E pid \in Pages : FlushPg(pid)

\* FlushAllPgsImp loop body for frame_id = i: if the frame's page id is found in
\* the page table, write the frame and clear the dirty flag of pages_[0]
\* (the code writes `pages_->is_dirty_ = false`).
FlushAllClearFrame(i) == 0

RECURSIVE FlushAllLoop(_, _, _, _)
FlushAllLoop(i, dk, dt, w) ==
  IF i >= PoolSize THEN <<dk, dt, w>>
  ELSE IF Find(page_id[i])
       THEN FlushAllLoop(i + 1, [dk EXCEPT ![page_id[i]] = data[i]],
                         [dt EXCEPT ![FlushAllClearFrame(i)] = FALSE], w \cup {page_id[i]})
       ELSE FlushAllLoop(i + 1, dk, dt, w)

\* BufferPoolManagerInstance::FlushAllPgsImp
FlushAllPgsImp ==
  LET r == FlushAllLoop(0, disk, is_dirty, {}) IN
  /\ disk' = r[1]
  /\ is_dirty' = r[2]
  /\ wrote' = r[3]
  /\ op' = [name |-> "FlushAllPages", arg |-> INVALID_PAGE_ID, ok |-> TRUE, dealloc |-> NoDealloc, dirty |-> FALSE]
  /\ UNCHANGED <<page_id, pin_count, data, free_list, page_table, evictable,
                 tracked, next_page_id, latest, mod>>

\* BufferPoolManagerInstance::DeallocatePage: the disk manager is told that
\* page id pid is free; the result is the id handed over.
DeallocatePage(pid) == pid

\* Frame whose dirty flag DeletePgImp clears after the write-back
\* (the code writes `pages_->is_dirty_ = false`, i.e. frame 0).
DeleteClearFrame(f) == 0

\* Caller's view: once DeletePage(pid) is called, the bytes written to pid
\* are no longer expected back.
Deleted == -2
ForgetDeleted(pid) ==
  IF pid \in Pages /\ latest[pid] # 0 THEN [latest EXCEPT ![pid] = Deleted] ELSE latest

\* BufferPoolManagerInstance::DeletePgImp(pid)
DeletePg(pid) ==
  LET dp == DeallocatePage(pid) IN
  /\ latest' = ForgetDeleted(pid)
  /\ IF ~Find(pid)
     THEN /\ op' = [name |-> "DeletePage", arg |-> pid, ok |-> TRUE, dealloc |-> dp, dirty |-> FALSE]
          /\ wrote' = {}
          /\ UNCHANGED <<page_id, pin_count, is_dirty, data, free_list, page_table,
                         evictable, tracked, next_page_id, disk, mod>>
     ELSE LET f == page_table[pid] IN
          IF pin_count[f] > 0
          THEN /\ op' = [name |-> "DeletePage", arg |-> pid, ok |-> FALSE, dealloc |-> dp, dirty |-> FALSE]
               /\ wrote' = {}
               /\ UNCHANGED <<page_id, pin_count, is_dirty, data, free_list, page_table,
                              evictable, tracked, next_page_id, disk, mod>>
          ELSE /\ disk' = IF is_dirty[f] THEN [disk EXCEPT ![page_id[f]] = data[f]] ELSE disk
               /\ wrote' = IF is_dirty[f] THEN {page_id[f]} ELSE {}
               /\ is_dirty' = IF is_dirty[f]
                              THEN [is_dirty EXCEPT ![DeleteClearFrame(f)] = FALSE]
                              ELSE is_dirty
               /\ tracked' = tracked \ {f}
               /\ evictable' = evictable \ {f}
               /\ free_list' = FreeListPush(free_list, f)
               /\ page_table' = PageTableRemove(page_table, pid)
               /\ op' = [name |-> "DeletePage", arg |-> pid, ok |-> TRUE, dealloc |-> dp, dirty |-> FALSE]
               /\ UNCHANGED <<page_id, pin_count, data, next_page_id, mod>>

DeletePgImp == \E pid \in PageKeys : DeletePg(pid)

\* A caller writes bytes v through the handle of a pinned frame (Page::GetData).
WriteData ==
  \E f \in Cached, v \in WriteVals :
    /\ pin_count[f] > 0
    /\ page_id[f] \in WritePages
    /\ data' = [data EXCEPT ![f] = v]
    /\ latest' = [latest EXCEPT ![page_id[f]] = v]
    /\ mod' = [mod EXCEPT ![f] = TRUE]
    /\ op' = [name |-> "WriteData", arg |-> page_id[f], ok |-> TRUE, dealloc |-> NoDealloc, dirty |-> FALSE]
    /\ wrote' = {}
    /\ UNCHANGED <<page_id, pin_count, is_dirty, free_list, page_table, evictable,
                   tracked, next_page_id, disk>>

Next ==
  /\ PoolBuilt
  /\ UNCHANGED <<htVars, repVars, concVars, ctorVars>>
  /\ \/ NewPgImp /\ UNCHANGED <<unalloc_fetch, dirty_lost_unpin>>
     \/ FetchPgImp /\ UNCHANGED dirty_lost_unpin
     \/ UnpinPgImp /\ UNCHANGED unalloc_fetch
     \/ FlushPgImp /\ UNCHANGED <<unalloc_fetch, dirty_lost_unpin>>
     \/ FlushAllPgsImp /\ UNCHANGED <<unalloc_fetch, dirty_lost_unpin>>
     \/ DeletePgImp /\ UNCHANGED <<unalloc_fetch, dirty_lost_unpin>>

\* Pool operations together with callers writing through page handles.
NextData ==
  \/ Next
  \/ PoolBuilt /\ WriteData /\ UNCHANGED <<htVars, repVars, concVars, ctorVars, unalloc_fetch, dirty_lost_unpin>>

Spec == Init /\ [][Next]_vars

SpecData == Init /\ [][NextData]_vars

\* ---- ExtendibleHashTable<int, int> ----

\* variant: the low bit of the hash is dropped
IndexOfShift(k, g) == (Hash(k) \div 2) % (2 ^ g)

\* ExtendibleHashTable::IndexOf under global depth g
IndexOf(k, g) == Hash(k) % (2 ^ g)

\* Bucket::IsFull (list_ holds size_ entries)
IsFull(b) == Len(b.items) >= BucketSize

Range(f) == {f[i] : i \in DOMAIN f}
MinOf(S) == CHOOSE x \in S : \A y \in S : x <= y

\* (x & m) != 0 for m a power of two
BitSet(x, m) == (x \div m) % 2 = 1

\* variant: the new half copies slot 0 instead of slot i
DoubleDirSlot0(d, g) == [i \in 0..(2 ^ (g + 1) - 1) |-> IF i < 2 ^ g THEN d[i] ELSE d[0]]

\* dir_.resize(capacity << 1); dir_[i + capacity] = dir_[i]
DoubleDir(d, g) == [i \in 0..(2 ^ (g + 1) - 1) |-> d[i % (2 ^ g)]]

\* variant: the split bit is one too high
SplitMaskHigh(td) == 2 ^ (td + 1)

\* int mask = 1 << target_bucket->GetDepth()
SplitMask(td) == 2 ^ td

\* variant: the new buckets keep the depth of the target bucket
SplitDepthSame(td) == td

\* make_shared<Bucket>(bucket_size_, target_bucket->GetDepth() + 1)
SplitDepth(td) == td + 1

\* variant: both new buckets counted
SplitNumBucketsTwo(nb) == nb + 2

\* num_buckets_++
SplitNumBuckets(nb) == nb + 1

\* One iteration of the loop in ExtendibleHashTable::Insert: the target bucket
\* of key is full; double the directory if its depth equals the global depth,
\* make bucket_0 / bucket_1 of depth + 1, move the entries by the bit
\* mask = 1 << depth, and repoint the slots that referenced the target.
\* st = [g: global_depth_, d: dir_, b: buckets, nb: num_buckets_, stuck].
SplitOnce(st, key) ==
  LET tb == st.d[IndexOf(key, st.g)]
      td == st.b[tb].depth
      g1 == IF td = st.g THEN st.g + 1 ELSE st.g
      d1 == IF td = st.g THEN DoubleDir(st.d, st.g) ELSE st.d
      mask == SplitMask(td)
      its == st.b[tb].items
      Goes1(e) == BitSet(Hash(e[1]), mask)
      Goes0(e) == ~BitSet(Hash(e[1]), mask)
      i0 == MinOf(BucketIds \ Range(d1))
      i1 == MinOf(BucketIds \ (Range(d1) \cup {i0}))
      b0 == [depth |-> SplitDepth(td), items |-> SelectSeq(its, Goes0)]
      b1 == [depth |-> SplitDepth(td), items |-> SelectSeq(its, Goes1)]
      d2 == [i \in DOMAIN d1 |->
               IF d1[i] = tb THEN (IF BitSet(i, mask) THEN i1 ELSE i0) ELSE d1[i]]
      b2 == [x \in BucketIds |->
               IF x = i0 THEN b0
               ELSE IF x = i1 THEN b1
               ELSE IF x = tb THEN NullBucket
               ELSE st.b[x]]
  IN [g |-> g1, d |-> d2, b |-> b2, nb |-> SplitNumBuckets(st.nb), stuck |-> FALSE]

\* Bound on loop iterations explored for one Insert; running out means the
\* loop would not terminate within the keys' hash bits.
InsertFuel == 2 * MaxKey

\* while (dir_[IndexOf(key)]->IsFull()) { split }
RECURSIVE InsertLoop(_, _, _)
InsertLoop(st, key, fuel) ==
  IF ~IsFull(st.b[st.d[IndexOf(key, st.g)]]) THEN st
  ELSE IF fuel = 0 THEN [st EXCEPT !.stuck = TRUE]
  ELSE InsertLoop(SplitOnce(st, key), key, fuel - 1)

\* variant: no search for an existing entry
PutItemAppend(its, k, v) == Append(its, <<k, v>>)

\* overwrite the entry of k in the target bucket, else Bucket::Insert appends
PutItem(its, k, v) ==
  LET pos == {i \in 1..Len(its) : its[i][1] = k} IN
  IF pos # {} THEN [its EXCEPT ![MinOf(pos)] = <<k, v>>] ELSE Append(its, <<k, v>>)

\* ExtendibleHashTable::Insert(k, v)
HTInsert(k, v) ==
  LET st0 == [g |-> global_depth, d |-> dir, b |-> bkt, nb |-> num_buckets, stuck |-> FALSE]
      st == InsertLoop(st0, k, InsertFuel)
      tb == st.d[IndexOf(k, st.g)]
      newItems == PutItem(st.b[tb].items, k, v)
  IN
  IF st.stuck
  THEN /\ ht_op' = [name |-> "Insert", key |-> k, ok |-> FALSE, val |-> v, stuck |-> TRUE,
                     fresh |-> expect[k] = NoValue, splits |-> st.nb - num_buckets]
       /\ UNCHANGED <<global_depth, dir, bkt, num_buckets, expect>>
  ELSE /\ global_depth' = st.g
       /\ dir' = st.d
       /\ bkt' = [st.b EXCEPT ![tb] = [depth |-> st.b[tb].depth, items |-> newItems]]
       /\ num_buckets' = st.nb
       /\ expect' = [expect EXCEPT ![k] = v]
       /\ ht_op' = [name |-> "Insert", key |-> k, ok |-> TRUE, val |-> v, stuck |-> FALSE,
                     fresh |-> expect[k] = NoValue, splits |-> st.nb - num_buckets]

\* Position of key k in the items of the bucket its slot references.
SlotItems(k) == bkt[dir[IndexOf(k, global_depth)]].items
KeyPos(k) == {i \in 1..Len(SlotItems(k)) : SlotItems(k)[i][1] = k}

\* ExtendibleHashTable::Find(k) (Bucket::Find: first match)
HTFind(k) ==
  /\ ht_op' = [name |-> "Find", key |-> k, ok |-> KeyPos(k) # {},
               val |-> IF KeyPos(k) # {} THEN SlotItems(k)[MinOf(KeyPos(k))][2] ELSE NoValue,
               stuck |-> FALSE, fresh |-> FALSE, splits |-> 0]
  /\ UNCHANGED <<global_depth, dir, bkt, num_buckets, expect>>

\* ExtendibleHashTable::Remove(k) (Bucket::Remove: erase first match)
HTRemove(k) ==
  LET tb == dir[IndexOf(k, global_depth)]
      its == bkt[tb].items
      p == MinOf(KeyPos(k))
  IN
  /\ ht_op' = [name |-> "Remove", key |-> k, ok |-> KeyPos(k) # {}, val |-> NoValue, stuck |-> FALSE,
               fresh |-> FALSE, splits |-> 0]
  /\ bkt' = IF KeyPos(k) # {}
            THEN [bkt EXCEPT ![tb].items = SubSeq(its, 1, p - 1) \o SubSeq(its, p + 1, Len(its))]
            ELSE bkt
  /\ expect' = [expect EXCEPT ![k] = NoValue]
  /\ UNCHANGED <<global_depth, dir, num_buckets>>

NextHT ==
  /\ UNCHANGED <<pool, repVars, concVars, ctorVars>>
  /\ \E k \in HKeys :
       \/ HTFind(k)
       \/ HTRemove(k)
       \/ \E v \in HVals : HTInsert(k, v)

SpecHT == Init /\ [][NextHT]_vars

\* ---- LRUKReplacer (spec-modelled) ----

RepPresent(f) == rhist[f] # <<>>
RepEvictable == {f \in RFrames : RepPresent(f) /\ rev[f]}

\* variant: the frame with the oldest most recent access (plain LRU)
VictimLRU(C) ==
  CHOOSE f \in C : \A g \in C : rhist[f][Len(rhist[f])] <= rhist[g][Len(rhist[g])]

\* Evict's choice among the evictable frames C: frames with fewer than K
\* accesses (infinite K-distance) first, and within the chosen group the frame
\* whose oldest kept timestamp is smallest (largest K-distance / earliest access).
VictimOf(C) ==
  LET infs == {f \in C : Len(rhist[f]) < ReplK}
      grp == IF infs # {} THEN infs ELSE C
  IN CHOOSE f \in grp : \A g \in grp : rhist[f][1] <= rhist[g][1]

\* LRUKReplacer::RecordAccess(f)
RepRecordAccess(f) ==
  /\ rts < MaxTs
  /\ LET h == Append(rhist[f], rts) IN
     rhist' = [rhist EXCEPT ![f] = IF Len(h) > ReplK THEN Tail(h) ELSE h]
  /\ rts' = rts + 1
  /\ rep_op' = [name |-> "RecordAccess", frame |-> f, ok |-> TRUE]
  /\ UNCHANGED <<rev, rsize>>

\* LRUKReplacer::SetEvictable(f, b)
RepSetEvictable(f, b) ==
  IF ~RepPresent(f)
  THEN /\ rep_op' = [name |-> "SetEvictable", frame |-> f, ok |-> FALSE]
       /\ UNCHANGED <<rhist, rev, rts, rsize>>
  ELSE /\ rev' = [rev EXCEPT ![f] = b]
       /\ rsize' = rsize + (IF b /\ ~rev[f] THEN 1 ELSE IF ~b /\ rev[f] THEN -1 ELSE 0)
       /\ rep_op' = [name |-> "SetEvictable", frame |-> f, ok |-> TRUE]
       /\ UNCHANGED <<rhist, rts>>

\* LRUKReplacer::Evict
RepEvict ==
  IF RepEvictable = {}
  THEN /\ rep_op' = [name |-> "Evict", frame |-> -1, ok |-> FALSE]
       /\ UNCHANGED <<rhist, rev, rts, rsize>>
  ELSE LET v == VictimOf(RepEvictable) IN
       /\ rhist' = [rhist EXCEPT ![v] = <<>>]
       /\ rev' = [rev EXCEPT ![v] = FALSE]
       /\ rsize' = rsize - 1
       /\ rep_op' = [name |-> "Evict", frame |-> v, ok |-> TRUE]
       /\ UNCHANGED rts

\* LRUKReplacer::Remove(f): no-op for an unknown frame, fails for a
\* non-evictable one.
RepRemove(f) ==
  IF ~RepPresent(f)
  THEN /\ rep_op' = [name |-> "Remove", frame |-> f, ok |-> TRUE]
       /\ UNCHANGED <<rhist, rev, rts, rsize>>
  ELSE IF ~rev[f]
  THEN /\ rep_op' = [name |-> "Remove", frame |-> f, ok |-> FALSE]
       /\ UNCHANGED <<rhist, rev, rts, rsize>>
  ELSE /\ rhist' = [rhist EXCEPT ![f] = <<>>]
       /\ rev' = [rev EXCEPT ![f] = FALSE]
       /\ rsize' = rsize - 1
       /\ rep_op' = [name |-> "Remove", frame |-> f, ok |-> TRUE]
       /\ UNCHANGED rts

NextRep ==
  /\ UNCHANGED <<pool, htVars, concVars, ctorVars>>
  /\ \/ \E f \in RFrames : RepRecordAccess(f)
     \/ \E f \in RFrames, b \in BOOLEAN : RepSetEvictable(f, b)
     \/ RepEvict
     \/ \E f \in RFrames : RepRemove(f)

SpecRep == Init /\ [][NextRep]_vars

\* ---- latching of the public pool methods ----

\* Calls made under the pool latch into page_table_ ("I") and replacer_ ("R"),
\* per path through each BufferPoolManagerInstance method.
OpCalls ==
  { [name |-> "NewPage", calls |-> <<"I", "R", "R">>],
    [name |-> "NewPage", calls |-> <<"R", "I", "I", "R", "R">>],
    [name |-> "NewPage", calls |-> <<"R">>],
    [name |-> "FetchPage", calls |-> <<"I", "R", "R">>],
    [name |-> "FetchPage", calls |-> <<"I", "I", "R", "R">>],
    [name |-> "FetchPage", calls |-> <<"I", "R", "I", "I", "R", "R">>],
    [name |-> "FetchPage", calls |-> <<"I", "R">>],
    [name |-> "UnpinPage", calls |-> <<"I">>],
    [name |-> "UnpinPage", calls |-> <<"I", "R">>],
    [name |-> "FlushPage", calls |-> <<"I">>],
    [name |-> "FlushAllPages", calls |-> [i \in 1..PoolSize |-> "I"]],
    [name |-> "DeletePage", calls |-> <<"I">>],
    [name |-> "DeletePage", calls |-> <<"I", "R", "I">>] }

\* latch taken by a call into page_table_ / replacer_
SubLatch(c) == IF c = "I" THEN "index" ELSE "replacer"

\* variant: FlushAllPgsImp without its scoped_lock
PoolLatchedNotFlushAll(name) == name # "FlushAllPages"

\* every *Imp method starts with std::scoped_lock<std::mutex> lock(latch_)
PoolLatched(name) == TRUE

\* a thread starts a public call
CStart(t) ==
  /\ PoolBuilt
  /\ tpc[t] = "idle" /\ tops[t] < MaxOps
  /\ \E o \in OpCalls :
       /\ tname' = [tname EXCEPT ![t] = o.name]
       /\ tcalls' = [tcalls EXCEPT ![t] = o.calls]
       /\ tpc' = [tpc EXCEPT ![t] = IF PoolLatched(o.name) THEN "acq_pool" ELSE "body"]
  /\ UNCHANGED <<tops, latch>>

\* scoped_lock on the pool latch
CAcqPool(t) ==
  /\ tpc[t] = "acq_pool" /\ latch["pool"] = 0
  /\ latch' = [latch EXCEPT !["pool"] = t]
  /\ tpc' = [tpc EXCEPT ![t] = "body"]
  /\ UNCHANGED <<tcalls, tname, tops>>

\* the next call into page_table_ / replacer_ takes that component's latch
CAcqSub(t) ==
  /\ tpc[t] = "body" /\ tcalls[t] # <<>>
  /\ latch[SubLatch(Head(tcalls[t]))] = 0
  /\ latch' = [latch EXCEPT ![SubLatch(Head(tcalls[t]))] = t]
  /\ tpc' = [tpc EXCEPT ![t] = "in_sub"]
  /\ UNCHANGED <<tcalls, tname, tops>>

\* the call returns, releasing the component latch
CRelSub(t) ==
  /\ tpc[t] = "in_sub"
  /\ latch' = [latch EXCEPT ![SubLatch(Head(tcalls[t]))] = 0]
  /\ tcalls' = [tcalls EXCEPT ![t] = Tail(@)]
  /\ tpc' = [tpc EXCEPT ![t] = "body"]
  /\ UNCHANGED <<tname, tops>>

\* the public call returns, releasing the pool latch
CFinish(t) ==
  /\ tpc[t] = "body" /\ tcalls[t] = <<>>
  /\ latch' = IF latch["pool"] = t THEN [latch EXCEPT !["pool"] = 0] ELSE latch
  /\ tpc' = [tpc EXCEPT ![t] = "idle"]
  /\ tname' = [tname EXCEPT ![t] = "none"]
  /\ tops' = [tops EXCEPT ![t] = @ + 1]
  /\ UNCHANGED tcalls

CProgress == \E t \in Threads : CAcqPool(t) \/ CAcqSub(t) \/ CRelSub(t) \/ CFinish(t)

NextConc ==
  /\ UNCHANGED <<pool, htVars, repVars, ctorVars>>
  /\ \/ \E t \in Threads : CStart(t)
     \/ CProgress

SpecConc == Init /\ [][NextConc]_vars

\* ---- construction ----

\* BufferPoolManagerInstance::BufferPoolManagerInstance(pool_size, ..., replacer_k, ...)
Construct ==
  /\ ctor_state = "start"
  /\ ctor_free' = [i \in 1..ctor_size |-> i - 1]
  /\ ctor_state' = IF CtorThrows THEN "threw" ELSE "built"
  /\ UNCHANGED <<ctor_size, ctor_k>>

NextCtor ==
  /\ UNCHANGED <<pool, htVars, repVars, concVars>>
  /\ Construct

\* any positive pool_size and replacer_k
InitCtor ==
  /\ InitBase
  /\ ctor_size \in 1..MaxCtorPool
  /\ ctor_k \in 1..MaxCtorK
  /\ CtorStartState

SpecCtor == InitCtor /\ [][NextCtor]_vars

\* ==== Claims ====

\* frame_id of the frame that holds pid in the page table
FrameOf(pid) == page_table[pid]

FreeSet == {free_list[i] : i \in 1..Len(free_list)}

\* C1: every frame whose page id is not INVALID is the frame the page table maps
\* that page id to, and no other frame holds the same page id (for callers that
\* fetch only page ids NewPage has handed out).
C1_PageTableMatchesFrames ==
  ~unalloc_fetch =>
  \A f \in Frames :
    page_id[f] # INVALID_PAGE_ID =>
      /\ Find(page_id[f])
      /\ FrameOf(page_id[f]) = f
      /\ \A g \in Frames \ {f} : page_id[g] # page_id[f]

\* C2: the free list and the frames referenced by the page table are disjoint
\* and cover all frames, |free_list| + |cached| = pool_size, and the free list
\* has no duplicate frame id.
C2_FreeListPartition ==
  /\ \A i, j \in 1..Len(free_list) : i # j => free_list[i] # free_list[j]
  /\ FreeSet \cap Cached = {}
  /\ FreeSet \cup Cached = Frames
  /\ Len(free_list) + Cardinality(Cached) = PoolSize

\* C2 (amended): in every behaviour whose FetchPage calls name only page ids
\* NewPage has already handed out (arg < next_page_id), the partition of C2
\* holds in every state.
C2_FreeListPartitionAllocated ==
  ~unalloc_fetch => C2_FreeListPartition

\* C2 case: a page was deleted, its frame is back on the free list while
\* another frame is still cached.
C2_Witness ==
  /\ ~unalloc_fetch
  /\ op.name = "DeletePage" /\ op.ok
  /\ Len(free_list) = 1
  /\ Cardinality(Cached) = PoolSize - 1
  /\ next_page_id = MaxPage

\* C3: a cached frame is evictable iff its pin count is 0, pin counts are never
\* negative, and NewPage/FetchPage never take a pinned frame as victim.
C3_EvictableIffUnpinned ==
  /\ [](\A f \in Cached : pin_count[f] >= 0 /\ (f \in evictable <=> pin_count[f] = 0))
  /\ [][\A f \in Cached : page_id'[f] # page_id[f] => pin_count[f] = 0]_vars

\* C3 case: an unpin left one frame still pinned while another is evictable.
C3_Witness ==
  /\ op.name = "UnpinPage" /\ op.ok
  /\ \E f \in Cached : pin_count[f] = 1
  /\ \E g \in Cached : g \in evictable

\* C4: NewPage, and FetchPage of an uncached page, fail exactly when the free
\* list is empty and no frame is evictable, and then change nothing; an evicted
\* victim is written back exactly when it is dirty.
C4_FailOnlyWhenExhausted ==
  [][(op'.name = "NewPage" \/ (op'.name = "FetchPage" /\ ~Find(op'.arg))) =>
       /\ op'.ok <=> (free_list # <<>> \/ EvictCandidates # {})
       /\ ~op'.ok => UNCHANGED poolVars
       /\ (op'.ok /\ free_list = <<>>) =>
            \E f \in EvictCandidates :
              /\ page_table'[op'.arg] = f
              /\ wrote' = IF is_dirty[f] THEN {page_id[f]} ELSE {}]_vars

\* C4 case: all frames pinned by NewPage and the next NewPage failed.
C4_Witness ==
  /\ op.name = "NewPage" /\ ~op.ok
  /\ next_page_id = PoolSize


\* C5: bytes written through page p's handle and unpinned dirty are never lost
\* while p is not deleted: the frame caching p holds them, and once p is
\* evicted the disk holds them, so a later FetchPage(p) returns them (for
\* callers that fetch only page ids NewPage has handed out, and whose writers
\* unpin with is_dirty = true).
C5_WriteBackRoundTrip ==
  ~unalloc_fetch /\ ~dirty_lost_unpin =>
  \A p \in Pages :
    latest[p] \in WriteVals =>
      IF Find(p) THEN data[FrameOf(p)] = latest[p] ELSE disk[p] = latest[p]

\* C6: FlushAllPages writes every cached frame and leaves no cached frame dirty;
\* FlushPage(p) on a cached p writes p and clears its dirty flag, and a second
\* FlushPage(p) right after writes the same bytes.
C6_FlushClearsDirty ==
  [][/\ op'.name = "FlushAllPages" =>
          /\ wrote' = {page_id[f] : f \in Cached}
          /\ \A f \in Cached : ~is_dirty'[f]
     /\ (op'.name = "FlushPage" /\ Find(op'.arg)) =>
          /\ wrote' = {op'.arg}
          /\ ~is_dirty'[FrameOf(op'.arg)]
     /\ (op'.name = "FlushPage" /\ op.name = "FlushPage" /\ op.arg = op'.arg) =>
          disk' = disk]_vars

\* C7: DeletePage(p) on a cached unpinned p returns true, writes p back if dirty,
\* removes p from the page table and replacer, appends its frame to the free
\* list, resets that frame to INVALID page id / pin 0 / clean, and leaves every
\* other frame's metadata unchanged.
C7_DeleteResetsFrame ==
  [][(op'.name = "DeletePage" /\ Find(op'.arg) /\ pin_count[FrameOf(op'.arg)] = 0) =>
       LET f == FrameOf(op'.arg) IN
       /\ op'.ok
       /\ is_dirty[f] => op'.arg \in wrote'
       /\ page_table'[op'.arg] = NoFrame
       /\ f \notin evictable' /\ f \notin tracked'
       /\ free_list' = Append(free_list, f)
       /\ page_id'[f] = INVALID_PAGE_ID /\ pin_count'[f] = 0 /\ ~is_dirty'[f]
       /\ \A g \in Frames \ {f} :
            /\ page_id'[g] = page_id[g]
            /\ pin_count'[g] = pin_count[g]
            /\ is_dirty'[g] = is_dirty[g]]_vars

\* C8: DeletePage(p) on a pinned p returns false, changes no state and does not
\* deallocate p at the disk manager.
C8_PinnedDeleteNoEffect ==
  [][(op'.name = "DeletePage" /\ Find(op'.arg) /\ pin_count[FrameOf(op'.arg)] > 0) =>
       /\ ~op'.ok
       /\ UNCHANGED poolVars
       /\ op'.dealloc = NoDealloc]_vars

\* C9: UnpinPage(p, d) returns false and changes nothing if p is not cached or
\* unpinned; otherwise it decrements the pin count, ORs d into the dirty flag,
\* makes the frame evictable exactly when the count reaches 0, and returns true.
C9_UnpinSemantics ==
  [][op'.name = "UnpinPage" =>
       IF ~Find(op'.arg) \/ pin_count[FrameOf(op'.arg)] = 0
       THEN ~op'.ok /\ UNCHANGED poolVars
       ELSE LET f == FrameOf(op'.arg) IN
            /\ op'.ok
            /\ pin_count' = [pin_count EXCEPT ![f] = @ - 1]
            /\ is_dirty' = [is_dirty EXCEPT ![f] = is_dirty[f] \/ op'.dirty]
            /\ evictable' = IF pin_count[f] = 1 THEN evictable \cup {f} ELSE evictable
            /\ UNCHANGED <<page_id, data, free_list, page_table, tracked, next_page_id, disk>>]_vars

\* C9 case: UnpinPage(p, false) on a dirty page kept it dirty.
C9_Witness ==
  /\ op.name = "UnpinPage" /\ op.ok /\ ~op.dirty
  /\ Find(op.arg) /\ is_dirty[FrameOf(op.arg)]

\* C10: a successful NewPage returns the current counter value and increments
\* it (0, 1, 2, ... from a fresh pool, hence pairwise distinct ids); a failed
\* NewPage leaves the counter unchanged.
C10_FreshPageIds ==
  [][op'.name = "NewPage" =>
       IF op'.ok
       THEN /\ op'.arg = next_page_id
            /\ next_page_id' = next_page_id + 1
       ELSE next_page_id' = next_page_id]_vars

\* C10 case: the third successful NewPage returned page id 2.
C10_Witness ==
  /\ op.name = "NewPage" /\ op.ok /\ op.arg = 2


\* ---- extendible hash table claims ----

\* entries <<bucket id, position>> of key k over the buckets the directory references
Occurrences(k) ==
  {<<b, i>> \in Range(dir) \X (1..(2 * MaxKey)) :
     i <= Len(bkt[b].items) /\ bkt[b].items[i][1] = k}

\* C11: Find(k) returns the value of the latest Insert(k, v) not removed since,
\* and false otherwise; Remove(k) returns true iff k was present; every such key
\* is stored exactly once with that value and no other key is stored.
C11_HashMapSemantics ==
  /\ [][/\ ht_op'.name = "Find" =>
            /\ ht_op'.ok <=> expect[ht_op'.key] # NoValue
            /\ ht_op'.ok => ht_op'.val = expect[ht_op'.key]
        /\ ht_op'.name = "Remove" =>
            (ht_op'.ok <=> expect[ht_op'.key] # NoValue)]_vars
  /\ [](\A k \in HKeys :
          /\ Cardinality(Occurrences(k)) = IF expect[k] # NoValue THEN 1 ELSE 0
          /\ \A o \in Occurrences(k) : bkt[o[1]].items[o[2]][2] = expect[k])

\* C11 case: a Find after the directory grew to depth 2 found its key.
C11_Witness ==
  /\ ht_op.name = "Find" /\ ht_op.ok
  /\ global_depth = 2

\* C12: Insert(k, v) of a present key overwrites in place without splitting:
\* num_buckets and global depth unchanged.
C12_OverwriteNoSplit ==
  [][(ht_op'.name = "Insert" /\ expect[ht_op'.key] # NoValue) =>
       /\ num_buckets' = num_buckets
       /\ global_depth' = global_depth]_vars

\* C13: the directory has 2^global_depth slots, every referenced bucket has
\* local depth <= global depth, and slots i, j reference the same bucket iff they
\* agree in the low local-depth bits of that bucket.
C13_DirectoryShape ==
  /\ DOMAIN dir = 0..(2 ^ global_depth - 1)
  /\ \A i \in DOMAIN dir : bkt[dir[i]].depth <= global_depth
  /\ \A i, j \in DOMAIN dir :
       LET m == 2 ^ bkt[dir[i]].depth IN
       (dir[i] = dir[j]) <=> (i % m = j % m)

\* C13 case: global depth 2 with a bucket of local depth 1 shared by two slots.
C13_Witness ==
  /\ global_depth = 2
  /\ \E i \in DOMAIN dir : bkt[dir[i]].depth = 1

\* C14: every key stored in the bucket of slot i agrees with i in the low
\* local-depth bits of its hash.
C14_KeysMatchSlot ==
  \A i \in DOMAIN dir :
    LET b == bkt[dir[i]]
        m == 2 ^ b.depth
    IN \A p \in 1..Len(b.items) : Hash(b.items[p][1]) % m = i % m

\* C14 case: a full bucket of local depth 1 reached from two slots at global depth 2.
C14_Witness ==
  /\ global_depth = 2
  /\ \E i \in DOMAIN dir : Len(bkt[dir[i]].items) = BucketSize /\ bkt[dir[i]].depth = 1

\* C15: Insert of a key not present terminates (the split loop reaches a
\* non-full bucket), and num_buckets equals the number of distinct buckets the
\* directory references.
C15_InsertTerminates ==
  /\ [][(ht_op'.name = "Insert" /\ expect[ht_op'.key] = NoValue) => ~ht_op'.stuck]_vars
  /\ [](num_buckets = Cardinality(Range(dir)))

\* C15 case: inserting a new key ran the split loop at least twice (keys 0, 2
\* and 4 share their low bit).
C15_Witness ==
  /\ ht_op.name = "Insert" /\ ht_op.ok /\ ht_op.fresh
  /\ ht_op.splits >= 2

\* C19: no referenced bucket holds more than bucket_size entries, no key occurs
\* twice in one bucket, and no key occurs in two buckets.
C19_BucketsWellFormed ==
  /\ \A b \in Range(dir) :
       /\ Len(bkt[b].items) <= BucketSize
       /\ \A p, q \in 1..Len(bkt[b].items) : p # q => bkt[b].items[p][1] # bkt[b].items[q][1]
  /\ \A b, c \in Range(dir) : b # c =>
       \A p \in 1..Len(bkt[b].items), q \in 1..Len(bkt[c].items) :
         bkt[b].items[p][1] # bkt[c].items[q][1]

\* C19 case: an Insert filled a bucket while two buckets exist.
C19_Witness ==
  /\ ht_op.name = "Insert" /\ ht_op.ok
  /\ num_buckets >= 2
  /\ \E b \in Range(dir) : Len(bkt[b].items) = BucketSize


\* ---- replacer claims ----

\* backward K-distance; MaxTs + 1 stands for +infinity
KDist(f) == IF Len(rhist[f]) < ReplK THEN MaxTs + 1 ELSE rts - rhist[f][1]

\* C16: Evict fails iff no frame is evictable; otherwise it returns the
\* evictable frame of greatest K-distance (ties among +inf broken by the
\* earliest kept timestamp), clears its history and decrements Size; Size is
\* always the number of evictable frames.
C16_EvictLRUK ==
  /\ [][rep_op'.name = "Evict" =>
          /\ rep_op'.ok <=> RepEvictable # {}
          /\ rep_op'.ok =>
               LET v == rep_op'.frame IN
               /\ v \in RepEvictable
               /\ \A g \in RepEvictable \ {v} :
                    \/ KDist(g) < KDist(v)
                    \/ KDist(g) = KDist(v) /\ rhist[v][1] < rhist[g][1]
               /\ rhist'[v] = <<>>
               /\ rsize' = rsize - 1]_vars
  /\ [](rsize = Cardinality(RepEvictable))

\* C16 case: an eviction chose between a frame with K accesses and one with fewer.
C16_Witness ==
  /\ rep_op.name = "Evict" /\ rep_op.ok
  /\ \E f \in RepEvictable : Len(rhist[f]) = ReplK
  /\ \E g \in RFrames : Len(rhist[g]) = 1


\* ---- latching claims ----

\* C17: a thread executes the body of a public pool method only while holding
\* the pool latch, no thread holds the index and replacer latches together,
\* and whenever a call is in progress some thread can make progress.
C17_LatchedAndDeadlockFree ==
  /\ \A t \in Threads : tpc[t] \in {"body", "in_sub"} => latch["pool"] = t
  /\ \A t \in Threads : ~(latch["index"] = t /\ latch["replacer"] = t)
  /\ (\E t \in Threads : tpc[t] # "idle") => ENABLED CProgress

\* C17 case: one thread is inside page_table_ under the pool latch while
\* another waits for the pool latch.
C17_Witness ==
  \E t, u \in Threads :
    /\ tpc[t] = "in_sub" /\ SubLatch(Head(tcalls[t])) = "index"
    /\ tpc[u] = "acq_pool"

\* ---- construction claims ----

\* C18: constructing with positive pool_size yields an object whose free list
\* holds all pool_size frames (and whose page table is empty).
C18_ConstructorBuilds ==
  ctor_state # "start" =>
    /\ ctor_state = "built"
    /\ Len(ctor_free) = ctor_size
    /\ Range(ctor_free) = 0..(ctor_size - 1)

\* ---- pool claims against the constructor as written ----
\* Each pool claim is about a BufferPoolManagerInstance object and its calls;
\* the statements below say that construction yields such an object and that
\* the object right after construction is in the state the claim describes.

Constructed == ctor_state # "start"

====
